---- MODULE Spec2Model ----
(***************************************************************************)
(* Model of the session controller of src/App.tsx: the six React state     *)
(* cells of App, the three handlers (handleFileSelect, handleSendMessage,  *)
(* handleReset) and the continuations of their awaits.  JavaScript runs    *)
(* each synchronous stretch of a handler to completion, so every action    *)
(* below is one such stretch: from the handler's entry (or the resumption  *)
(* of an await) up to the next await or the end of the handler.            *)
(*                                                                         *)
(* Strings are sequences of tokens (file names: sequences of characters),  *)
(* so that split/pop/toLowerCase and '+' are computed, not assumed.        *)
(* A nullable value is None (<<>>) or Some(v) (<<v>>).                     *)
(***************************************************************************)
EXTENDS Naturals, Sequences, FiniteSets

VARIABLES
  isProcessing,   \* App.tsx:11
  fileData,       \* App.tsx:12
  analysis,       \* App.tsx:13
  chatMessages,   \* App.tsx:14
  isChatLoading,  \* App.tsx:15
  error,          \* App.tsx:16
  upload,         \* the handleFileSelect invocation suspended at an await, if any
  chats,          \* handleSendMessage invocations suspended at await chatWithData
  nSends,         \* handleSendMessage invocations that issued a chat call so far
  ev              \* the handler stretch that ran last (history)

vars == <<isProcessing, fileData, analysis, chatMessages, isChatLoading, error,
          upload, chats, nSends, ev>>

session == <<isProcessing, fileData, analysis, chatMessages, isChatLoading, error>>

----------------------------------------------------------------------------
(* Bounds *)

\* handleSendMessage invocations that issue a chat call
MaxSends == 2

----------------------------------------------------------------------------
(* Nullable values and JavaScript's || on strings *)

None == <<>>
Some(v) == <<v>>
IsSome(o) == o # <<>>
Val(o) == o[1]

\* s || d for s : string | undefined  (undefined and '' are falsy)
OrElse(o, d) == IF IsSome(o) /\ Val(o) # <<>> THEN Val(o) ELSE d

----------------------------------------------------------------------------
(* Inputs *)

FileNames ==
  { <<"d", ".", "C", "S", "V">>,
    <<"d", ".", "d", "o", "c", "x">>,
    <<"d">> }

Contents == { <<"a,b">> }
Results == { "r1", "r2" }
Questions == { <<"q1">> }
\* what new Date() returns
Dates == { "d1" }
\* what chatWithData resolves to: '' or a text
Replies == { Some(<<>>), Some(<<"hi">>) }
\* err.message of what a rejected ingestion or analysis call throws:
\* undefined or a text
ErrMessages == { None, Some(<<"boom">>) }
\* err.message of what a rejected chat call throws
ChatErrMessages == { Some(<<"boom">>) }

UnsupportedMsg == <<"Unsupported file format. Please upload CSV, Excel, or PDF.">>
DefaultErrMsg == <<"An error occurred during file processing.">>
SorryMsg == <<"Sorry, I could not process that.">>
ErrorPrefix == "Error: "

----------------------------------------------------------------------------
(* file.name.split('.').pop()?.toLowerCase() *)

Lower(c) ==
  CASE c = "C" -> "c"
    [] c = "S" -> "s"
    [] c = "V" -> "v"
    [] c = "X" -> "x"
    [] c = "L" -> "l"
    [] c = "P" -> "p"
    [] c = "D" -> "d"
    [] c = "F" -> "f"
    [] OTHER -> c

ToLowerCase(s) == [i \in 1..Len(s) |-> Lower(s[i])]

\* the last element of name.split('.'): the characters after the last '.',
\* the whole name when it has no '.'
RECURSIVE LastSegment(_)
LastSegment(s) ==
  IF s = <<>> THEN <<>>
  ELSE IF s[Len(s)] = "." THEN <<>>
  ELSE Append(LastSegment(SubSeq(s, 1, Len(s) - 1)), s[Len(s)])

Extension(name) == ToLowerCase(LastSegment(name))

CSV == <<"c", "s", "v">>
XLSX == <<"x", "l", "s", "x">>
XLS == <<"x", "l", "s">>
PDF == <<"p", "d", "f">>

Supported(ext) == ext = CSV \/ ext = XLSX \/ ext = XLS \/ ext = PDF

----------------------------------------------------------------------------
(* Messages *)

\* inv is history: the handleSendMessage invocation that created the message
ChatMessage(role, text, date, inv) ==
  [role |-> role, text |-> text, timestamp |-> date, inv |-> inv]

\* the history passed on as it is, timestamps included
Turns_WithTimestamps(msgs) ==
  [i \in 1..Len(msgs) |->
     [role |-> msgs[i].role, text |-> msgs[i].text, timestamp |-> msgs[i].timestamp]]

\* chatMessages.map(m => ({ role: m.role, text: m.text }))
Turns(msgs) == [i \in 1..Len(msgs) |-> [role |-> msgs[i].role, text |-> msgs[i].text]]

\* the message of the failure without the 'Error: ' in front
ErrText_NoPrefix(m) == IF IsSome(m) THEN Val(m) ELSE <<"undefined">>

\* 'Error: ' + err.message
ErrText(m) == IF IsSome(m) THEN <<ErrorPrefix>> \o Val(m) ELSE <<ErrorPrefix, "undefined">>

\* every suspended invocation has now seen another handler stretch run
\* (alone and before are history; before is kept only while alone holds)
Disturbed(r) == [r EXCEPT !.alone = FALSE, !.before = None]
Disturb(f) == [i \in DOMAIN f |-> Disturbed(f[i])]
DisturbBut(f, k) == [i \in DOMAIN f \ {k} |-> Disturbed(f[i])]
DisturbOpt(o) == IF IsSome(o) THEN Some(Disturbed(Val(o))) ELSE None
\* the chat history has been cleared under every suspended chat call
\* (stale is history: the call was issued before the last clearing)
Cleared(f) == [i \in DOMAIN f |-> [Disturbed(f[i]) EXCEPT !.stale = TRUE]]

\* ev: which stretch ran last, of which invocation, on which input or outcome
Event(type, id, out) == [type |-> type, id |-> id, out |-> out, settled |-> None]
\* the stretch that ended invocation id, whose record was r
Settle(type, id, out, r) == [type |-> type, id |-> id, out |-> out, settled |-> Some(r)]

----------------------------------------------------------------------------
Init ==
  /\ isProcessing = FALSE
  /\ fileData = None
  /\ analysis = None
  /\ chatMessages = <<>>
  /\ isChatLoading = FALSE
  /\ error = None
  /\ upload = None
  /\ chats = <<>>
  /\ nSends = 0
  /\ ev = Event("init", 0, None)

----------------------------------------------------------------------------
(* handleReset, App.tsx:74-79 *)

\* a reset that forgets the error banner
handleReset_KeepsError ==
  /\ fileData' = None
  /\ analysis' = None
  /\ chatMessages' = <<>>
  /\ upload' = DisturbOpt(upload)
  /\ chats' = Cleared(chats)
  /\ ev' = Event("reset", 0, None)
  /\ UNCHANGED <<isProcessing, isChatLoading, error, nSends>>

handleReset ==
  /\ fileData' = None
  /\ analysis' = None
  /\ chatMessages' = <<>>
  /\ error' = None
  /\ upload' = DisturbOpt(upload)
  /\ chats' = Cleared(chats)
  /\ ev' = Event("reset", 0, None)
  /\ UNCHANGED <<isProcessing, isChatLoading, nSends>>

----------------------------------------------------------------------------
(* handleFileSelect, App.tsx:18-48 *)

\* err.message || 'An error occurred during file processing.'
CaughtMessage(m) == OrElse(m, DefaultErrMsg)

\* an unsupported file rejected without the setError of line 44
SelectUnsupported_NoError(name) ==
  /\ ~Supported(Extension(name))
  /\ error' = None
  /\ isProcessing' = FALSE
  /\ upload' = DisturbOpt(upload)
  /\ chats' = Disturb(chats)
  /\ ev' = Event("selectUnsupported", 0, Some(name))
  /\ UNCHANGED <<fileData, analysis, chatMessages, isChatLoading, nSends>>

\* lines 19-34 when no branch of the extension test matches: the throw is
\* caught before any await, so the handler runs to its end in one stretch
SelectUnsupported(name) ==
  /\ ~Supported(Extension(name))
  /\ error' = Some(CaughtMessage(Some(UnsupportedMsg)))
  /\ isProcessing' = FALSE
  /\ upload' = DisturbOpt(upload)
  /\ chats' = Disturb(chats)
  /\ ev' = Event("selectUnsupported", 0, Some(name))
  /\ UNCHANGED <<fileData, analysis, chatMessages, isChatLoading, nSends>>

\* lines 19-31 up to the await of file.text(), parseExcel(file) or parsePDF(file)
\* (calls is history: the analyzeData calls the invocation has issued).
\* At most one invocation is suspended at a time: FileUpload, the only caller,
\* is unmounted once isProcessing is set (line 103), so a file that reaches an
\* await is not followed by another before the handler has ended.
SelectSupported(name) ==
  /\ Supported(Extension(name))
  /\ ~IsSome(upload)
  /\ isProcessing' = TRUE
  /\ error' = None
  /\ upload' = Some([pc |-> "ingest", name |-> name, extension |-> Extension(name),
                      content |-> None, calls |-> 0, hadChat |-> chatMessages # <<>>,
                      alone |-> TRUE,
                      before |-> Some([fileData |-> fileData, analysis |-> analysis])])
  /\ chats' = Disturb(chats)
  /\ ev' = Event("select", 0, Some(name))
  /\ UNCHANGED <<fileData, analysis, chatMessages, isChatLoading, nSends>>

handleFileSelect == \E name \in FileNames : SelectUnsupported(name) \/ SelectSupported(name)

\* line 36 storing the content as it was initialised on line 22
IngestOk_StoresNoContent(content) ==
  /\ IsSome(upload)
  /\ Val(upload).pc = "ingest"
  /\ fileData' = Some([name |-> Val(upload).name, content |-> <<>>,
                       type |-> OrElse(Some(Val(upload).extension), <<>>)])
  /\ upload' = Some([Val(upload) EXCEPT !.pc = "analyze", !.content = Some(content),
                                         !.calls = @ + 1])
  /\ chats' = Disturb(chats)
  /\ ev' = Event("ingestOk", 0, None)
  /\ UNCHANGED <<isProcessing, analysis, chatMessages, isChatLoading, error, nSends>>

\* the ingestion await resolves: lines 27/29/31, 36 and the call of line 38
IngestOk(content) ==
  /\ IsSome(upload)
  /\ Val(upload).pc = "ingest"
  /\ fileData' = Some([name |-> Val(upload).name, content |-> content,
                       type |-> OrElse(Some(Val(upload).extension), <<>>)])
  /\ upload' = Some([Val(upload) EXCEPT !.pc = "analyze", !.content = Some(content),
                                         !.calls = @ + 1])
  /\ chats' = Disturb(chats)
  /\ ev' = Event("ingestOk", 0, None)
  /\ UNCHANGED <<isProcessing, analysis, chatMessages, isChatLoading, error, nSends>>

\* a failed ingestion without the finally block of lines 45-47
IngestFail_NoFinally(m) ==
  /\ IsSome(upload)
  /\ Val(upload).pc = "ingest"
  /\ error' = Some(CaughtMessage(m))
  /\ upload' = None
  /\ chats' = Disturb(chats)
  /\ ev' = Settle("ingestFail", 0, m, Val(upload))
  /\ UNCHANGED <<isProcessing, fileData, analysis, chatMessages, isChatLoading, nSends>>

\* the ingestion await rejects (or parseCSV throws): lines 42-47
IngestFail(m) ==
  /\ IsSome(upload)
  /\ Val(upload).pc = "ingest"
  /\ error' = Some(CaughtMessage(m))
  /\ isProcessing' = FALSE
  /\ upload' = None
  /\ chats' = Disturb(chats)
  /\ ev' = Settle("ingestFail", 0, m, Val(upload))
  /\ UNCHANGED <<fileData, analysis, chatMessages, isChatLoading, nSends>>

\* a success path without the setChatMessages([]) of line 41
AnalyzeOk_KeepsChat(result) ==
  /\ IsSome(upload)
  /\ Val(upload).pc = "analyze"
  /\ analysis' = Some(result)
  /\ isProcessing' = FALSE
  /\ upload' = None
  /\ chats' = Disturb(chats)
  /\ ev' = Settle("analyzeOk", 0, Some(result), Val(upload))
  /\ UNCHANGED <<fileData, chatMessages, isChatLoading, error, nSends>>

\* a completion that is dropped when the session was reset meanwhile
AnalyzeOk_DropsStale(result) ==
  /\ IsSome(upload)
  /\ Val(upload).pc = "analyze"
  /\ analysis' = IF IsSome(fileData) THEN Some(result) ELSE analysis
  /\ chatMessages' = <<>>
  /\ isProcessing' = FALSE
  /\ upload' = None
  /\ chats' = Cleared(chats)
  /\ ev' = Settle("analyzeOk", 0, Some(result), Val(upload))
  /\ UNCHANGED <<fileData, isChatLoading, error, nSends>>

\* analyzeData resolves: lines 38-41 and 46
AnalyzeOk(result) ==
  /\ IsSome(upload)
  /\ Val(upload).pc = "analyze"
  /\ analysis' = Some(result)
  /\ chatMessages' = <<>>
  /\ isProcessing' = FALSE
  /\ upload' = None
  /\ chats' = Cleared(chats)
  /\ ev' = Settle("analyzeOk", 0, Some(result), Val(upload))
  /\ UNCHANGED <<fileData, isChatLoading, error, nSends>>

\* a rejected analysis call that is issued again
AnalyzeFail_Retries(m) ==
  /\ IsSome(upload)
  /\ Val(upload).pc = "analyze"
  /\ upload' = Some([Val(upload) EXCEPT !.calls = @ + 1])
  /\ chats' = Disturb(chats)
  /\ ev' = Event("analyzeRetry", 0, m)
  /\ UNCHANGED <<session, nSends>>

\* analyzeData rejects: lines 42-47
AnalyzeFail(m) ==
  /\ IsSome(upload)
  /\ Val(upload).pc = "analyze"
  /\ error' = Some(CaughtMessage(m))
  /\ isProcessing' = FALSE
  /\ upload' = None
  /\ chats' = Disturb(chats)
  /\ ev' = Settle("analyzeFail", 0, m, Val(upload))
  /\ UNCHANGED <<fileData, analysis, chatMessages, isChatLoading, nSends>>

----------------------------------------------------------------------------
(* handleSendMessage, App.tsx:50-72 *)

\* a send without the guard of line 51: the user message is appended anyway
SendNoFile_Appends(text) ==
  /\ ~IsSome(fileData)
  /\ chatMessages' = Append(chatMessages, ChatMessage("user", text, "d1", 0))
  /\ ev' = Event("sendNoFile", 0, None)
  /\ UNCHANGED <<isProcessing, fileData, analysis, isChatLoading, error,
                 upload, chats, nSends>>

\* line 51
SendNoFile(text) ==
  /\ ~IsSome(fileData)
  /\ ev' = Event("sendNoFile", 0, None)
  /\ UNCHANGED <<session, upload, chats, nSends>>

\* lines 53-62 up to the await of chatWithData
SendWithFile(text, date) ==
  /\ IsSome(fileData)
  /\ nSends < MaxSends
  /\ chatMessages' = Append(chatMessages, ChatMessage("user", text, date, nSends + 1))
  /\ isChatLoading' = TRUE
  /\ nSends' = nSends + 1
  /\ chats' = [i \in DOMAIN chats \cup {nSends + 1} |->
                 IF i = nSends + 1
                 THEN [request |-> [question |-> text,
                                    grounding |-> Val(fileData).content,
                                    turns |-> Turns(chatMessages)],
                       alone |-> TRUE, before |-> Some(chatMessages), stale |-> FALSE]
                 ELSE Disturbed(chats[i])]
  /\ upload' = DisturbOpt(upload)
  /\ ev' = Event("send", nSends + 1, None)
  /\ UNCHANGED <<isProcessing, fileData, analysis, error>>

handleSendMessage ==
  \E text \in Questions : SendNoFile(text) \/ \E date \in Dates : SendWithFile(text, date)

\* the reply used as it comes, without the fallback
ReplyText_NoFallback(response) == IF IsSome(response) THEN Val(response) ELSE <<>>

\* response || 'Sorry, I could not process that.'
ReplyText(response) == OrElse(response, SorryMsg)

\* chatWithData resolves: lines 64-65 and 70
ChatOk(id, response, date) ==
  /\ id \in DOMAIN chats
  /\ chatMessages' = Append(chatMessages, ChatMessage("model", ReplyText(response), date, id))
  /\ isChatLoading' = FALSE
  /\ chats' = DisturbBut(chats, id)
  /\ upload' = DisturbOpt(upload)
  /\ ev' = Settle("chatOk", id, response, chats[id])
  /\ UNCHANGED <<isProcessing, fileData, analysis, error, nSends>>

\* a failure that rewrites the last message instead of appending one
ChatFail_ReplacesLast(id, m, date) ==
  /\ id \in DOMAIN chats
  /\ chatMessages' =
       IF chatMessages = <<>> THEN <<ChatMessage("model", ErrText(m), date, id)>>
       ELSE [chatMessages EXCEPT ![Len(chatMessages)] =
                                   ChatMessage("model", ErrText(m), date, id)]
  /\ isChatLoading' = FALSE
  /\ chats' = DisturbBut(chats, id)
  /\ upload' = DisturbOpt(upload)
  /\ ev' = Settle("chatFail", id, m, chats[id])
  /\ UNCHANGED <<isProcessing, fileData, analysis, error, nSends>>

\* chatWithData rejects: lines 66-68 and 70
ChatFail(id, m, date) ==
  /\ id \in DOMAIN chats
  /\ chatMessages' = Append(chatMessages, ChatMessage("model", ErrText(m), date, id))
  /\ isChatLoading' = FALSE
  /\ chats' = DisturbBut(chats, id)
  /\ upload' = DisturbOpt(upload)
  /\ ev' = Settle("chatFail", id, m, chats[id])
  /\ UNCHANGED <<isProcessing, fileData, analysis, error, nSends>>

----------------------------------------------------------------------------
Next ==
  \/ handleReset
  \/ handleFileSelect
  \/ \E content \in Contents : IngestOk(content)
  \/ \E m \in ErrMessages : IngestFail(m)
  \/ \E result \in Results : AnalyzeOk(result)
  \/ \E m \in ErrMessages : AnalyzeFail(m)
  \/ handleSendMessage
  \/ \E id \in 1..MaxSends, response \in Replies, date \in Dates : ChatOk(id, response, date)
  \/ \E id \in 1..MaxSends, m \in ChatErrMessages, date \in Dates : ChatFail(id, m, date)

Spec == Init /\ [][Next]_vars

----------------------------------------------------------------------------
(* The handlers as the view of App.tsx:81-153 offers them *)

\* FileUpload is rendered while !analysis && !isProcessing (lines 103-109)
UploadShown == ~IsSome(analysis) /\ ~isProcessing
\* the reset button is rendered while fileData is set (lines 91-98)
ResetShown == IsSome(fileData)
\* ChatInterface is rendered in the last branch of the conditional of lines
\* 103-146: analysis && fileData, and neither of the two branches before it
ChatShown == ~UploadShown /\ ~isProcessing /\ IsSome(analysis) /\ IsSome(fileData)

ViewSelect == UploadShown /\ handleFileSelect
ViewReset == ResetShown /\ handleReset
\* (fileData is set where the chat is shown: the return of line 51 is not taken)
ViewSend == ChatShown /\ \E text \in Questions, date \in Dates : SendWithFile(text, date)

NextView ==
  \/ ViewSelect
  \/ ViewReset
  \/ ViewSend
  \/ \E content \in Contents : IngestOk(content)
  \/ \E m \in ErrMessages : IngestFail(m)
  \/ \E result \in Results : AnalyzeOk(result)
  \/ \E m \in ErrMessages : AnalyzeFail(m)
  \/ \E id \in 1..MaxSends, response \in Replies, date \in Dates : ChatOk(id, response, date)
  \/ \E id \in 1..MaxSends, m \in ChatErrMessages, date \in Dates : ChatFail(id, m, date)

SpecView == Init /\ [][NextView]_vars

----------------------------------------------------------------------------
(* handleFileSelect on one file, over many file names *)

NameStems ==
  { <<>>, <<"d">>, <<"d", ".">>, <<".">>, <<"d", ".", "v", "2", ".">>,
    <<"d", ".", "c", "s", "v", ".">>, <<"p", "d", "f", ".">>, <<"d", ".", ".">> }

NameEnds ==
  { <<>>, <<"c", "s", "v">>, <<"C", "S", "V">>, <<"C", "s", "v">>,
    <<"x", "l", "s", "x">>, <<"X", "L", "S", "X">>, <<"x", "l", "s">>, <<"X", "l", "s">>,
    <<"p", "d", "f">>, <<"P", "D", "F">>, <<"d", "o", "c", "x">>, <<"t", "x", "t">>,
    <<"c", "s">>, <<"c", "s", "v", "x">>, <<"x", "l">> }

ManyFileNames == { stem \o end : stem \in NameStems, end \in NameEnds }

\* the file the user is about to select
InitPicked ==
  /\ isProcessing = FALSE
  /\ fileData = None
  /\ analysis = None
  /\ chatMessages = <<>>
  /\ isChatLoading = FALSE
  /\ error = None
  /\ upload = None
  /\ chats = <<>>
  /\ nSends = 0
  /\ \E name \in ManyFileNames : ev = Event("pick", 0, Some(name))

SelectPicked ==
  /\ ev.type = "pick"
  /\ (SelectUnsupported(Val(ev.out)) \/ SelectSupported(Val(ev.out)))

NextPicked == SelectPicked

SpecPicked == InitPicked /\ [][NextPicked]_vars

----------------------------------------------------------------------------
(* Properties *)

Idle == ~IsSome(fileData) /\ ~IsSome(analysis)
Ready == IsSome(fileData) /\ IsSome(analysis)

\* the (role, text) pairs of a message list
RoleText(msgs) == [i \in 1..Len(msgs) |-> <<msgs[i].role, msgs[i].text>>]

\* C1: every handleReset, whatever is in flight, leaves fileData = null,
\* analysis = null, chatMessages = [] and error = null.
C1_ResetClears ==
  [][ev'.type = "reset" =>
       /\ fileData' = None
       /\ analysis' = None
       /\ chatMessages' = <<>>
       /\ error' = None]_vars

\* a reset has just run while an upload and a chat call are in flight
C1_Witness ==
  /\ ev.type = "reset"
  /\ IsSome(upload)
  /\ DOMAIN chats # {}
  /\ fileData = None /\ analysis = None /\ chatMessages = <<>> /\ error = None

\* C3: handleSendMessage invoked while fileData is null changes nothing of the
\* session, issues no chat call and leaves nothing pending that could append
\* a message later.
C3_SendWithoutFileIsNoOp ==
  [][(ev'.type \in {"send", "sendNoFile"} /\ fileData = None) =>
       /\ UNCHANGED session
       /\ chats' = chats
       /\ nSends' = nSends]_vars

\* a send has just been made with no file loaded, while the chat history is
\* not empty (a late reply arrived after a reset)
C3_Witness ==
  /\ ev.type = "sendNoFile"
  /\ fileData = None
  /\ chatMessages # <<>>

UploadSettled == {"selectUnsupported", "ingestFail", "analyzeFail", "analyzeOk"}
UploadFailed == {"selectUnsupported", "ingestFail", "analyzeFail"}

\* whether the upload that settles in this step was started with messages in
\* the chat history
StartedWithChat ==
  IF ev'.type = "selectUnsupported" THEN chatMessages # <<>>
  ELSE Val(ev'.settled).hadChat

\* C2 as stated: an upload started with a non-empty chat history settles with
\* an empty one, whether it succeeds or fails.
C2_Original ==
  [][(ev'.type \in UploadSettled /\ StartedWithChat) => chatMessages' = <<>>]_vars

\* C2 amended: an upload started with a non-empty chat history that succeeds
\* settles with an empty one; one that fails (unsupported extension,
\* ingestion or analysis call) settles with the chat history as the failing
\* step found it.
C2_SuccessfulUploadClearsChat ==
  [][(ev'.type \in UploadSettled /\ StartedWithChat) =>
       /\ ev'.type = "analyzeOk" => chatMessages' = <<>>
       /\ ev'.type \in UploadFailed => chatMessages' = chatMessages]_vars

\* an upload started with messages in the chat history has just succeeded
C2_Witness ==
  /\ ev.type = "analyzeOk"
  /\ Val(ev.settled).hadChat
  /\ chatMessages = <<>>

\* C4 as stated: a successful send with nothing interleaved appends the user
\* message with the submitted text, then a model message whose text is the
\* reply returned by the chat call, whatever that reply is.
C4_Original ==
  [][(ev'.type = "chatOk" /\ chats[ev'.id].alone) =>
       RoleText(chatMessages') =
         RoleText(Val(chats[ev'.id].before))
           \o << <<"user", chats[ev'.id].request.question>>,
                 <<"model", Val(ev'.out)>> >>]_vars

\* C4 amended: ... then a model message whose text is the reply returned by
\* the chat call when that reply is not empty, and 'Sorry, I could not
\* process that.' when it is empty.
C4_SendAppendsUserThenReply ==
  [][(ev'.type = "chatOk" /\ chats[ev'.id].alone) =>
       RoleText(chatMessages') =
         RoleText(Val(chats[ev'.id].before))
           \o << <<"user", chats[ev'.id].request.question>>,
                 <<"model", IF Val(ev'.out) = <<>> THEN SorryMsg ELSE Val(ev'.out)>> >>]_vars

\* a chat call has just succeeded with a reply, nothing having run since its
\* send, in a session that already had messages
C4_Witness ==
  /\ ev.type = "chatOk"
  /\ Val(ev.settled).alone
  /\ Val(ev.settled).before # Some(<<>>)
  /\ ev.out = Some(<<"hi">>)
  /\ Len(chatMessages) = Len(Val(Val(ev.settled).before)) + 2

\* C5: a send whose chat call fails appends one model message whose text
\* begins with "Error: " (after the user message with the submitted text,
\* two messages in all when nothing is interleaved); the invocation ends
\* there, and error, fileData and analysis are unchanged, so a Ready session
\* stays Ready.
C5_FailedSendAppendsError ==
  [][ev'.type = "chatFail" =>
       /\ \E msg \in {chatMessages'[Len(chatMessages')]} :
            /\ chatMessages' = Append(chatMessages, msg)
            /\ msg.role = "model"
            /\ Len(msg.text) >= 1 /\ msg.text[1] = "Error: "
       /\ chats[ev'.id].alone =>
            /\ Len(chatMessages') = Len(Val(chats[ev'.id].before)) + 2
            /\ SubSeq(chatMessages', 1, Len(chatMessages') - 2) = Val(chats[ev'.id].before)
            /\ RoleText(chatMessages')[Len(chatMessages') - 1] =
                 <<"user", chats[ev'.id].request.question>>
       /\ ev'.id \notin DOMAIN chats'
       /\ error' = error /\ fileData' = fileData /\ analysis' = analysis
       /\ Ready => Ready']_vars

\* a chat call has just failed in a Ready session, nothing having run since
\* its send
C5_Witness ==
  /\ ev.type = "chatFail"
  /\ Val(ev.settled).alone
  /\ Ready
  /\ chatMessages # <<>>
  /\ chatMessages[Len(chatMessages)].text[1] = "Error: "

\* the extensions the specification recognises
Recognized == { <<"c", "s", "v">>, <<"x", "l", "s", "x">>, <<"x", "l", "s">>, <<"p", "d", "f">> }

\* C6: handleFileSelect on a file whose extension is not recognised ends at
\* once with error set and isProcessing false, leaves fileData, analysis and
\* chatMessages as they were (so null, null from Idle) and issues no
\* analysis call.
C6_UnsupportedOnlyRecordsError ==
  [][(ev'.type \in {"select", "selectUnsupported"} /\ Extension(Val(ev'.out)) \notin Recognized) =>
       /\ error' # None
       /\ isProcessing' = FALSE
       /\ fileData' = fileData /\ analysis' = analysis /\ chatMessages' = chatMessages
       /\ Idle => (fileData' = None /\ analysis' = None)
       /\ IsSome(upload') = IsSome(upload)
       /\ IsSome(upload) => Val(upload').pc = Val(upload).pc]_vars

\* an unsupported file has just been rejected from Idle
C6_Witness ==
  /\ ev.type = "selectUnsupported"
  /\ Extension(Val(ev.out)) \notin Recognized
  /\ Idle
  /\ error # None
  /\ ~isProcessing

\* C7 as stated: when the analysis call fails, an error is recorded and
\* fileData and analysis are as they were before the upload started.
C7_Original ==
  [][(ev'.type = "analyzeFail" /\ Val(upload).alone) =>
       /\ error' # None
       /\ fileData' = Val(Val(upload).before).fileData
       /\ analysis' = Val(Val(upload).before).analysis]_vars

\* C8: an upload whose ingestion and analysis call succeed with nothing
\* interleaved settles Ready: fileData is the file's name, extracted content
\* and extension, analysis is the object returned, chatMessages is empty,
\* error is null and isProcessing is false.
C8_SuccessfulUploadIsReady ==
  [][(ev'.type = "analyzeOk" /\ Val(upload).alone) =>
       /\ fileData' = Some([name |-> Val(upload).name,
                            content |-> Val(Val(upload).content),
                            type |-> Extension(Val(upload).name)])
       /\ analysis' = ev'.out
       /\ chatMessages' = <<>>
       /\ error' = None
       /\ isProcessing' = FALSE
       /\ Ready']_vars

\* an upload has just succeeded with nothing interleaved
C8_Witness ==
  /\ ev.type = "analyzeOk"
  /\ Val(ev.settled).alone
  /\ Ready
  /\ Val(fileData).content = Val(Val(ev.settled).content)
  /\ analysis = ev.out

\* C9 as stated: isChatLoading holds only in Ready states.
C9_Original == isChatLoading => Ready

\* C10 as stated: isChatLoading holds exactly while a chat call is outstanding.
C10_Original == isChatLoading <=> DOMAIN chats # {}

\* C11 as stated: every model message in chatMessages comes after the user
\* message of the same handleSendMessage invocation.
C11_Original ==
  \A i \in 1..Len(chatMessages) :
    chatMessages[i].role = "model" =>
      \E j \in 1..(i - 1) :
        chatMessages[j].role = "user" /\ chatMessages[j].inv = chatMessages[i].inv

\* C12 as stated: chatMessages never holds a message of a handleSendMessage
\* invocation issued before the last reset or successful upload.
C12_Original ==
  [][\A k \in DOMAIN chats :
       chats[k].stale =>
         \A i \in 1..Len(chatMessages') : chatMessages'[i].inv # k]_vars

\* C13: the stale-update hazard is reachable (C13_Witness), because no
\* completion is guarded: an analysis call that resolves after a reset has
\* emptied fileData still sets analysis, fileData staying null, and a chat
\* call issued before a reset or upload cleared the history still appends
\* its model message.
C13_StaleCompletionsStillUpdate ==
  [][/\ (ev'.type = "analyzeOk" /\ fileData = None) =>
          (analysis' = ev'.out /\ analysis' # None /\ fileData' = None)
     /\ (ev'.type \in {"chatOk", "chatFail"} /\ chats[ev'.id].stale) =>
          /\ Len(chatMessages') = Len(chatMessages) + 1
          /\ chatMessages'[Len(chatMessages')].role = "model"
          /\ chatMessages'[Len(chatMessages')].inv = ev'.id]_vars

\* both hazards have happened: analysis is set with fileData null (the
\* analysis call resolved after a reset), and the reply of a chat call issued
\* before the reset has just been appended
C13_Witness ==
  /\ ev.type = "chatOk"
  /\ Val(ev.settled).stale
  /\ analysis # None
  /\ fileData = None
  /\ chatMessages # <<>>
  /\ chatMessages[Len(chatMessages)].inv = ev.id

\* the analyzeData calls the suspended invocation has issued
CallsOf(u) == IF IsSome(u) THEN Val(u).calls ELSE 0

\* C14: an invocation issues its analysis call in the stretch that stores
\* fileData with the extracted content, after ingestion has completed; it
\* issues at most one, and none when ingestion fails or the extension is
\* unsupported.
C14_AnalysisAfterIngestionOnce ==
  [][/\ (IsSome(upload') /\ CallsOf(upload') > CallsOf(upload)) =>
          /\ ev'.type = "ingestOk"
          /\ IsSome(upload) /\ Val(upload).pc = "ingest"
          /\ IsSome(Val(upload').content)
          /\ fileData' = Some([name |-> Val(upload').name,
                               content |-> Val(Val(upload').content),
                               type |-> Val(upload').extension])
     /\ CallsOf(upload') <= 1
     /\ ev'.type \in {"analyzeOk", "analyzeFail"} => Val(ev'.settled).calls = 1
     /\ ev'.type = "ingestFail" => Val(ev'.settled).calls = 0
     /\ ev'.type = "selectUnsupported" => CallsOf(upload') = CallsOf(upload)]_vars

\* an upload whose single analysis call failed has just settled
C14_Witness ==
  /\ ev.type = "analyzeFail"
  /\ Val(ev.settled).calls = 1
  /\ IsSome(Val(ev.settled).content)
  /\ ~IsSome(upload)

\* C15: between two clearing events (a handleReset, the successful end of an
\* upload) chatMessages is append-only: every other step leaves it unchanged
\* or adds one message at its end.
C15_ChatAppendOnly ==
  [][ev'.type \notin {"reset", "analyzeOk"} =>
       \/ chatMessages' = chatMessages
       \/ /\ Len(chatMessages') = Len(chatMessages) + 1
          /\ SubSeq(chatMessages', 1, Len(chatMessages)) = chatMessages]_vars

\* two overlapping sends have both been answered since the last clearing
C15_Witness ==
  /\ Len(chatMessages) = 4
  /\ ev.type \in {"chatOk", "chatFail"}
  /\ chatMessages[1].role = "user" /\ chatMessages[2].role = "user"

\* C16: the chat call a send issues carries the submitted text, the content
\* of the loaded file, and the (role, text) pairs of chatMessages as it stood
\* when the handler was invoked: no timestamps, and without the question's
\* own user message.
C16_ChatRequest ==
  [][ev'.type = "send" =>
       /\ ev'.id \in DOMAIN chats' /\ ev'.id \notin DOMAIN chats
       /\ chats'[ev'.id].request.question = chatMessages'[Len(chatMessages')].text
       /\ chats'[ev'.id].request.grounding = Val(fileData).content
       /\ Len(chats'[ev'.id].request.turns) = Len(chatMessages)
       /\ \A i \in 1..Len(chatMessages) :
            chats'[ev'.id].request.turns[i] =
              [role |-> chatMessages[i].role, text |-> chatMessages[i].text]]_vars

\* a send has just been issued in a session that already had an exchange
C16_Witness ==
  /\ ev.type = "send"
  /\ Len(chatMessages) = 3
  /\ Len(chats[ev.id].request.turns) = 2
  /\ chats[ev.id].request.grounding = Val(fileData).content

\* the characters of a name after its last '.', for a name that has one
AfterLastDot(name) ==
  LET k == CHOOSE i \in 1..Len(name) :
             name[i] = "." /\ \A j \in (i + 1)..Len(name) : name[j] # "."
  IN  SubSeq(name, k + 1, Len(name))

\* a name has a recognised extension: it has a '.', and what follows the
\* last one is csv, xlsx, xls or pdf in either case
HasRecognizedExtension(name) ==
  /\ \E i \in 1..Len(name) : name[i] = "."
  /\ ToLowerCase(AfterLastDot(name)) \in Recognized

\* C17 as stated: handleFileSelect fails with the unsupported-format error
\* exactly when the name's extension is not csv, xlsx, xls or pdf; a name
\* without '.' has no extension.
C17_Original ==
  [][ev.type = "pick" =>
       ((ev'.type = "selectUnsupported" /\ error' = Some(UnsupportedMsg))
          <=> ~HasRecognizedExtension(Val(ev.out)))]_vars

\* C18: through the rendered controls, isProcessing is true exactly while
\* an invocation of handleFileSelect has started and has not yet settled,
\* whatever resets happen in between.
C18_ProcessingIffUploadInFlight == isProcessing <=> IsSome(upload)

C18_Witness ==
  /\ ev.type = "reset"
  /\ IsSome(upload)
  /\ Val(upload).pc = "analyze"
  /\ isProcessing
  /\ fileData = None

\* C19 as stated: through the rendered controls, a state that is not
\* processing has no analysis (upload form) or has both the analysis and
\* the file (dashboard).
C19_Original ==
  ~isProcessing => (analysis = None \/ (IsSome(analysis) /\ IsSome(fileData)))

====
